---- MODULE Spec2Model ----
(***************************************************************************)
(* pyoverleaf: the virtual filesystem (ProjectIO, ProjectBytesIO) over the *)
(* cached project tree, the remote calls it issues (Api), and the          *)
(* socket.io exchanges of Api.project_get_files and                        *)
(* Api._pull_doc_project_file_content.                                     *)
(*                                                                         *)
(* A path is modelled by the tuple pathlib.PurePath(path).parts.           *)
(***************************************************************************)
EXTENDS Integers, Sequences, FiniteSets, TLC

\* ------------------------------------------------------------------ bounds
MaxDepth == 3
InitEntities == 2
MaxOps == 2

Names == {"a", "b"}
Kinds == {"folder", "file", "doc"}
RootId == 0
NoId == -1

Paths == UNION {[1..n -> Names] : n \in 0..MaxDepth}

\* ------------------------------------------------------------ sequences
Range(s) == {s[i] : i \in DOMAIN s}

Min(S) == CHOOSE x \in S : \A y \in S : x <= y

RECURSIVE SortedSeq(_)
SortedSeq(S) == IF S = {} THEN <<>> ELSE <<Min(S)>> \o SortedSeq(S \ {Min(S)})

RemoveFrom(s, x) == SelectSeq(s, LAMBDA y : y # x)

\* ------------------------------------------------------- the remote tree
\* What the server holds for one project: for every live entity its name and
\* kind and, for a folder, the three child lists of the join-project payload.
RemoteNode(name, kind, folders, fileRefs, docs) ==
    [name |-> name, kind |-> kind, folders |-> folders, fileRefs |-> fileRefs,
     docs |-> docs]

EmptyFolder(name) == RemoteNode(name, "folder", <<>>, <<>>, <<>>)

\* The shapes a project can have when the client first looks at it: entity i
\* hangs under the root or under an earlier folder.
TreeShapes ==
    UNION {{s \in [1..n -> [parent : 0..(n - 1), name : Names, kind : Kinds]] :
              \A i \in 1..n :
                 /\ s[i].parent < i
                 /\ s[i].parent # RootId => s[s[i].parent].kind = "folder"
                 /\ \A j \in 1..(i - 1) :
                       (s[j].parent = s[i].parent /\ s[j].name = s[i].name)
                          => "folder" \in {s[i].kind, s[j].kind}}
           : n \in 0..InitEntities}

ShapeKids(s, p, k) == SortedSeq({i \in DOMAIN s : s[i].parent = p /\ s[i].kind = k})

ShapeTree(s) ==
    [i \in {RootId} \cup DOMAIN s |->
        IF i = RootId
        THEN RemoteNode("rootFolder", "folder", ShapeKids(s, i, "folder"),
                        ShapeKids(s, i, "file"), ShapeKids(s, i, "doc"))
        ELSE IF s[i].kind = "folder"
        THEN RemoteNode(s[i].name, "folder", ShapeKids(s, i, "folder"),
                        ShapeKids(s, i, "file"), ShapeKids(s, i, "doc"))
        ELSE RemoteNode(s[i].name, s[i].kind, <<>>, <<>>, <<>>)]

\* from_data as it would be with the fileRefs loop ahead of the folders loop.
from_data_files_first(tree) ==
    [i \in DOMAIN tree |->
        [id |-> i, name |-> tree[i].name, type |-> tree[i].kind,
         children |-> tree[i].fileRefs \o tree[i].folders \o tree[i].docs]]

\* ProjectFolder.from_data / ProjectFile.from_data: sub-folders first, then
\* fileRefs, then docs; a ProjectFile carries no children attribute.
from_data(tree) ==
    [i \in DOMAIN tree |->
        [id |-> i, name |-> tree[i].name, type |-> tree[i].kind,
         children |-> tree[i].folders \o tree[i].fileRefs \o tree[i].docs]]


\* ------------------------------------------------------------ the state
VARIABLES
    remote,     \* the server's tree: live entity id -> RemoteNode
    store,      \* the server's content: file id -> bytes, doc id -> lines
    nextId,     \* the next entity id the server assigns
    cache,      \* ProjectIO._cached_project_files (loaded = "is not None")
    last,       \* the outcome of the latest ProjectIO call
    nops,       \* number of ProjectIO calls made so far
    conn,       \* the socket exchange in flight in Api
    handles,    \* the file objects ProjectIO.open has returned
    session         \* the Api: its session, CSRF cache and the requests it made

vars == <<remote, store, nextId, cache, last, nops, conn, handles, session>>

\* One remote call as the Api method issued it; res is the id the server
\* answered with, NoId when the call failed.
Call(api, target, kind, name, data, res) ==
    [api |-> api, target |-> target, kind |-> kind, name |-> name,
     data |-> data, res |-> res]

NoResult ==
    [op |-> "none", path |-> <<>>, exist_ok |-> FALSE, parents |-> FALSE,
     missing_ok |-> FALSE, mode |-> <<>>, h |-> 0, data |-> <<>>,
     err |-> "ok", found |-> FALSE, names |-> <<>>, calls |-> <<>>]

World == [remote |-> remote, store |-> store, next |-> nextId]

\* ---------------------------------------------------------- the server
RECURSIVE Subtree(_, _)
Subtree(tree, i) ==
    {i} \cup UNION {Subtree(tree, c) :
                      c \in Range(tree[i].folders \o tree[i].fileRefs \o tree[i].docs)}

ParentOf(tree, i) ==
    CHOOSE p \in DOMAIN tree :
        i \in Range(tree[p].folders \o tree[p].fileRefs \o tree[p].docs)

\* POST /project/{id}/folder: a new empty folder under parent_folder_id.
project_create_folder(w, parent_folder_id, folder_name, fail) ==
    IF \/ fail
       \/ parent_folder_id \notin DOMAIN w.remote
    THEN [w |-> w, res |-> NoId]
    ELSE [w |-> [w EXCEPT
                   !.remote = [i \in DOMAIN w.remote \cup {w.next} |->
                                 IF i = w.next THEN EmptyFolder(folder_name)
                                 ELSE IF i = parent_folder_id
                                 THEN [w.remote[i] EXCEPT !.folders = Append(@, w.next)]
                                 ELSE w.remote[i]],
                   !.next = w.next + 1],
          res |-> w.next]

\* DELETE /project/{id}/{entity_type}/{entity}: the entity and all below it.
project_delete_entity(w, entity, entity_type, fail) ==
    IF \/ fail
       \/ entity = RootId
       \/ entity \notin DOMAIN w.remote
    THEN [w |-> w, res |-> NoId]
    ELSE LET gone == Subtree(w.remote, entity)
             p == ParentOf(w.remote, entity)
         IN [w |-> [w EXCEPT
                      !.remote = [i \in DOMAIN w.remote \ gone |->
                                    IF i = p
                                    THEN [w.remote[i] EXCEPT
                                            !.folders = RemoveFrom(@, entity),
                                            !.fileRefs = RemoveFrom(@, entity),
                                            !.docs = RemoveFrom(@, entity)]
                                    ELSE w.remote[i]],
                      !.store = [i \in DOMAIN w.store \ gone |-> w.store[i]]],
             res |-> entity]

\* ------------------------------------------------------------ ProjectIO
\* _project_files without its `is None` test: every call fetches.
_project_files_refetch(fetchOk) ==
    IF fetchOk
    THEN [err |-> "ok", cache |-> [loaded |-> TRUE, nodes |-> from_data(remote)],
          calls |-> <<Call("project_get_files", RootId, "folder", "", <<>>, RootId)>>]
    ELSE [err |-> "RuntimeError", cache |-> cache,
          calls |-> <<Call("project_get_files", RootId, "folder", "", <<>>, NoId)>>]

\* _project_files: the cached root, fetched by Api.project_get_files when the
\* cache is None; a failed fetch raises and assigns nothing.
_project_files(fetchOk) ==
    IF cache.loaded
    THEN [err |-> "ok", cache |-> cache, calls |-> <<>>]
    ELSE IF fetchOk
    THEN [err |-> "ok", cache |-> [loaded |-> TRUE, nodes |-> from_data(remote)],
          calls |-> <<Call("project_get_files", RootId, "folder", "", <<>>, RootId)>>]
    ELSE [err |-> "RuntimeError", cache |-> cache,
          calls |-> <<Call("project_get_files", RootId, "folder", "", <<>>, NoId)>>]

\* `for child in children: if child.name == part`: the first child so named.
FirstChild(nodes, children, part) ==
    LET hits == {k \in DOMAIN children : nodes[children[k]].name = part}
    IN IF hits = {} THEN NoId ELSE children[Min(hits)]

\* _find: None is id = NoId; reading .children of a ProjectFile raises.
RECURSIVE FindFrom(_, _, _, _)
FindFrom(nodes, current_pointer, parts, i) ==
    IF i > Len(parts) THEN [err |-> "ok", id |-> current_pointer]
    ELSE IF nodes[current_pointer].type # "folder"
    THEN [err |-> "AttributeError", id |-> NoId]
    ELSE LET child == FirstChild(nodes, nodes[current_pointer].children, parts[i])
         IN IF child = NoId THEN [err |-> "ok", id |-> NoId]
            ELSE FindFrom(nodes, child, parts, i + 1)

_find(nodes, path) == FindFrom(nodes, RootId, path, 1)

exists(nodes, path) ==
    LET f == _find(nodes, path)
    IN [err |-> f.err, found |-> f.err = "ok" /\ f.id # NoId]

listdir(nodes, path) ==
    LET directory == _find(nodes, path)
    IN IF directory.err # "ok" THEN [err |-> directory.err, names |-> <<>>]
       ELSE IF directory.id = NoId THEN [err |-> "FileNotFoundError", names |-> <<>>]
       ELSE IF nodes[directory.id].type # "folder"
       THEN [err |-> "AttributeError", names |-> <<>>]
       ELSE [err |-> "ok",
             names |-> [k \in DOMAIN nodes[directory.id].children |->
                          nodes[nodes[directory.id].children[k]].name]]

\* mkdir: current_pointer is a cached folder or the folder object a creation
\* returned (cur_children then holds what the server answered: nothing).
\* failAt is the creation call (1, 2, ...) the server rejects, 0 for none.
RECURSIVE MkdirFrom(_, _, _, _, _, _, _, _, _, _)
MkdirFrom(nodes, w, cur_id, cur_children, parts, i, exist_ok, parents, failAt, calls) ==
    IF i > Len(parts) THEN [err |-> "ok", w |-> w, calls |-> calls]
    ELSE
    LET child == FirstChild(nodes, cur_children, parts[i]) IN
    IF child # NoId
    THEN IF nodes[child].type # "folder"
         THEN [err |-> "FileExistsError", w |-> w, calls |-> calls]
         ELSE IF i = Len(parts) /\ ~exist_ok
         THEN [err |-> "FileExistsError", w |-> w, calls |-> calls]
         ELSE MkdirFrom(nodes, w, child, nodes[child].children, parts, i + 1,
                        exist_ok, parents, failAt, calls)
    ELSE IF i < Len(parts) /\ ~parents
    THEN [err |-> "FileNotFoundError", w |-> w, calls |-> calls]
    ELSE LET r == project_create_folder(w, cur_id, parts[i], Len(calls) + 1 = failAt)
             c == Call("project_create_folder", cur_id, "folder", parts[i], <<>>, r.res)
         IN IF r.res = NoId
            THEN [err |-> "HTTPError", w |-> r.w, calls |-> Append(calls, c)]
            ELSE MkdirFrom(nodes, r.w, r.res, <<>>, parts, i + 1, exist_ok, parents,
                           failAt, Append(calls, c))

\* mkdir as it would be without the `not parents` test / the `not exist_ok` test.
mkdir_always_parents(nodes, w, path, exist_ok, parents, failAt) ==
    MkdirFrom(nodes, w, RootId, nodes[RootId].children, path, 1, exist_ok, TRUE,
              failAt, <<>>)

mkdir_always_exist_ok(nodes, w, path, exist_ok, parents, failAt) ==
    MkdirFrom(nodes, w, RootId, nodes[RootId].children, path, 1, TRUE, parents,
              failAt, <<>>)

\* mkdir as it would be with a rollback: a failed creation undoes the folders
\* created before it.
mkdir_rollback(nodes, w, path, exist_ok, parents, failAt) ==
    CHOOSE x \in {IF r.err = "HTTPError" THEN [r EXCEPT !.w = w] ELSE r :
                    r \in {MkdirFrom(nodes, w, RootId, nodes[RootId].children, path, 1,
                                     exist_ok, parents, failAt, <<>>)}} : TRUE

mkdir(nodes, w, path, exist_ok, parents, failAt) ==
    MkdirFrom(nodes, w, RootId, nodes[RootId].children, path, 1, exist_ok, parents,
              failAt, <<>>)

remove(nodes, w, path, missing_ok, fail) ==
    LET entity == _find(nodes, path)
    IN IF entity.err # "ok" THEN [err |-> entity.err, w |-> w, calls |-> <<>>]
       ELSE IF entity.id = NoId
       THEN [err |-> IF missing_ok THEN "ok" ELSE "FileNotFoundError", w |-> w,
             calls |-> <<>>]
       ELSE LET r == project_delete_entity(w, entity.id, nodes[entity.id].type, fail)
            IN [err |-> IF r.res = NoId THEN "HTTPError" ELSE "ok", w |-> r.w,
                calls |-> <<Call("project_delete_entity", entity.id,
                                 nodes[entity.id].type, "", <<>>, r.res)>>]

\* ---------------------------------------------- the socket exchanges
MaxFrames == 4

\* A received frame: its leading characters, on which the code's startswith
\* tests decide, and its decoded JSON payload.
Frame(text, body) == [text |-> text, body |-> body]

StartsWith(line, prefix) ==
    /\ Len(prefix) <= Len(line.text)
    /\ SubSeq(line.text, 1, Len(prefix)) = prefix

P5 == <<"5", ":">>
P7 == <<"7", ":">>
P6_2 == <<"6", ":", ":", ":", "2", "+">>
P6_3 == <<"6", ":", ":", ":", "3", "+">>

\* The line lists a joinDoc ack can carry at index 1 of its JSON array; a line
\* is a string, the tuple of its code points (72 "H", 87 "W", 233 "e" acute).
DocLines == {<<>>, <<<<72>>>>, <<<<72>>, <<87>>>>, <<<<>>, <<72, 87>>>>, <<<<233>>>>}

\* Everything the server may push while the client waits.
Frames ==
    {Frame(<<"1", ":", ":">>, <<>>),
     Frame(<<"2", ":", ":">>, <<>>),
     Frame(<<"5", ":", ":", ":">>, [name |-> "joinProjectResponse", rootFolder |-> 1]),
     Frame(<<"5", ":", ":", ":">>, [name |-> "joinProjectResponse", rootFolder |-> 0]),
     Frame(<<"5", ":", ":", ":">>, [name |-> "clientTracking.clientUpdated", rootFolder |-> 0]),
     Frame(<<"6", ":", ":", ":", "1", "+">>, <<>>),
     Frame(<<"6", ":", ":", ":", "3", "+">>, <<>>),
     Frame(<<"7", ":", ":", ":">>, <<>>)}
    \cup {Frame(P6_2, <<<<>>, l>>) : l \in DocLines}
    \cup {Frame(P6_2, <<<<>>>>)}

RECURSIVE JoinLines_trailing(_)
\* A join that ends every line, the last one too, with a newline.
JoinLines_trailing(lines) ==
    IF lines = <<>> THEN <<>>
    ELSE lines[1] \o <<10>> \o JoinLines_trailing(Tail(lines))

RECURSIVE JoinLines(_)
\* "\n".join(lines), a newline being byte 10.
JoinLines(lines) ==
    IF lines = <<>> THEN <<>>
    ELSE IF Len(lines) = 1 THEN lines[1]
    ELSE lines[1] \o <<10>> \o JoinLines(Tail(lines))

RECURSIVE Utf8Encode(_)
\* str.encode("utf-8") of a string of code points below 2048.
Utf8Encode(text) ==
    IF text = <<>> THEN <<>>
    ELSE (IF Head(text) < 128 THEN <<Head(text)>>
          ELSE <<192 + (Head(text) \div 64), 128 + (Head(text) % 64)>>)
         \o Utf8Encode(Tail(text))

NoConn ==
    [op |-> "none", pc |-> "idle", socket |-> "none", closes |-> 0,
     data |-> <<>>, err |-> "", text |-> <<>>, log |-> <<>>]

Recv(f) == [ev |-> "recv", what |-> f.text, body |-> f.body]
Sent(name) == [ev |-> "send", what |-> <<name>>]
Closed == [ev |-> "close", what |-> <<>>]

NRecv(log) == Len(SelectSeq(log, LAMBDA e : e.ev = "recv"))

\* _open_socket: the handshake GET and create_connection; either may raise.
_open_socket(c, op, ok) ==
    IF ok THEN [c EXCEPT !.op = op, !.pc = "recv5", !.socket = "open"]
    ELSE [c EXCEPT !.op = op, !.pc = "raised", !.err = "ConnectionError"]

\* The `finally` of _pull_doc_project_file_content.
PullFinally(c) ==
    IF c.socket # "none"
    THEN [c EXCEPT !.socket = "closed", !.closes = @ + 1, !.log = Append(@, Closed)]
    ELSE c

\* An exception leaving the sequence without a `finally` to close the socket.
PullRaise_no_finally(c, err) == [c EXCEPT !.pc = "raised", !.err = err]

\* An exception leaving the try block of _pull_doc_project_file_content.
PullRaise(c, err) == PullFinally([c EXCEPT !.pc = "raised", !.err = err])

\* pull_recv taking any ack frame (prefix 6:) for the joinDoc ack.
pull_recv_any_ack(c, f, ok) ==
    IF ~ok THEN PullRaise(c, "WebSocketTimeoutException")
    ELSE
    LET c1 == [c EXCEPT !.log = Append(@, Recv(f))] IN
    IF StartsWith(f, P7) THEN PullRaise(c1, "RuntimeError")
    ELSE IF c.pc = "recv5" /\ StartsWith(f, P5) THEN [c1 EXCEPT !.pc = "send1"]
    ELSE IF c.pc = "recv2" /\ StartsWith(f, <<"6", ":">>)
    THEN [c1 EXCEPT !.pc = "send3", !.data = f.body]
    ELSE IF c.pc = "recv3" /\ StartsWith(f, P6_3)
    THEN LET c2 == PullFinally([c1 EXCEPT !.pc = "returned"])
         IN IF Len(c2.data) < 2 THEN [c2 EXCEPT !.pc = "raised", !.err = "IndexError"]
            ELSE [c2 EXCEPT !.text = JoinLines(c2.data[2])]
    ELSE c1

\* pull_recv taking any ack frame (prefix 6:) for the leaveDoc ack.
pull_recv_leave_any_ack(c, f, ok) ==
    IF ~ok THEN PullRaise(c, "WebSocketTimeoutException")
    ELSE
    LET c1 == [c EXCEPT !.log = Append(@, Recv(f))] IN
    IF StartsWith(f, P7) THEN PullRaise(c1, "RuntimeError")
    ELSE IF c.pc = "recv5" /\ StartsWith(f, P5) THEN [c1 EXCEPT !.pc = "send1"]
    ELSE IF c.pc = "recv2" /\ StartsWith(f, P6_2)
    THEN [c1 EXCEPT !.pc = "send3", !.data = f.body]
    ELSE IF c.pc = "recv3" /\ StartsWith(f, <<"6", ":">>)
    THEN LET c2 == PullFinally([c1 EXCEPT !.pc = "returned"])
         IN IF Len(c2.data) < 2 THEN [c2 EXCEPT !.pc = "raised", !.err = "IndexError"]
            ELSE [c2 EXCEPT !.text = JoinLines(c2.data[2])]
    ELSE c1

\* One socket.recv() of _pull_doc_project_file_content and what follows it up
\* to the next send or recv; ok = FALSE is a recv that raises (timeout).
pull_recv(c, f, ok) ==
    IF ~ok THEN PullRaise(c, "WebSocketTimeoutException")
    ELSE
    LET c1 == [c EXCEPT !.log = Append(@, Recv(f))] IN
    IF StartsWith(f, P7) THEN PullRaise(c1, "RuntimeError")
    ELSE IF c.pc = "recv5" /\ StartsWith(f, P5) THEN [c1 EXCEPT !.pc = "send1"]
    ELSE IF c.pc = "recv2" /\ StartsWith(f, P6_2)
    THEN [c1 EXCEPT !.pc = "send3", !.data = f.body]
    ELSE IF c.pc = "recv3" /\ StartsWith(f, P6_3)
    THEN LET c2 == PullFinally([c1 EXCEPT !.pc = "returned"])
         IN IF Len(c2.data) < 2 THEN [c2 EXCEPT !.pc = "raised", !.err = "IndexError"]
            ELSE [c2 EXCEPT !.text = JoinLines(c2.data[2])]
    ELSE c1

\* One socket.send() of _pull_doc_project_file_content.
pull_send(c, ok) ==
    IF ~ok THEN PullRaise(c, "WebSocketConnectionClosedException")
    ELSE IF c.pc = "send1"
    THEN [c EXCEPT !.pc = "send2",
                   !.log = Append(@, Sent("5:1+::clientTracking.getConnectedUsers"))]
    ELSE IF c.pc = "send2"
    THEN [c EXCEPT !.pc = "recv2", !.log = Append(@, Sent("5:2+::joinDoc"))]
    ELSE [c EXCEPT !.pc = "recv3", !.log = Append(@, Sent("5:3+::leaveDoc"))]

\* One socket.recv() of project_get_files and, on a type-5 frame, the decoding
\* that follows; nothing in project_get_files closes the socket.
get_files_recv(c, f, ok) ==
    IF ~ok THEN [c EXCEPT !.pc = "raised", !.err = "WebSocketTimeoutException"]
    ELSE
    LET c1 == [c EXCEPT !.log = Append(@, Recv(f))] IN
    IF StartsWith(f, P7) THEN [c1 EXCEPT !.pc = "raised", !.err = "RuntimeError"]
    ELSE IF StartsWith(f, P5)
    THEN IF f.body.name = "joinProjectResponse" /\ f.body.rootFolder = 1
         THEN [c1 EXCEPT !.pc = "returned"]
         ELSE [c1 EXCEPT !.pc = "raised", !.err = "AssertionError"]
    ELSE c1

\* ------------------------------------------------------- file contents
MaxData == 1
MaxBuf == 2
MaxHandles == 1
MaxFileOps == 3

ByteVals == {10, 120}
Data == UNION {[1..n -> ByteVals] : n \in 0..MaxData}

Max(a, b) == IF a >= b THEN a ELSE b

RECURSIVE SplitLines(_)
\* The lines of a document whose text is `bytes` (byte 10 separates lines).
SplitLines(bytes) ==
    IF 10 \notin Range(bytes) THEN <<bytes>>
    ELSE LET k == Min({i \in DOMAIN bytes : bytes[i] = 10})
         IN <<SubSeq(bytes, 1, k - 1)>> \o SplitLines(SubSeq(bytes, k + 1, Len(bytes)))

\* POST /project/{id}/upload?folder_id=...: the entity of that name in the
\* folder is created or replaced. The server picks the kind of the entity and
\* whether a replaced entity of the same kind keeps its id.
project_upload_file(w, folder_id, file_name, file_content, fail, kind, keep) ==
    IF fail \/ folder_id \notin DOMAIN w.remote
    THEN [w |-> w, res |-> NoId, kind |-> kind]
    ELSE
    LET f == w.remote[folder_id]
        same == {i \in Range(f.fileRefs \o f.docs) : w.remote[i].name = file_name}
        kept == IF keep THEN {i \in same : w.remote[i].kind = kind} ELSE {}
        id == IF kept # {} THEN Min(kept) ELSE w.next
        gone == same \ {id}
        refs == SelectSeq(f.fileRefs, LAMBDA i : i \notin gone)
        docs == SelectSeq(f.docs, LAMBDA i : i \notin gone)
    IN [w |-> [w EXCEPT
                 !.remote = [i \in (DOMAIN w.remote \ gone) \cup {id} |->
                               IF i = id THEN RemoteNode(file_name, kind, <<>>, <<>>, <<>>)
                               ELSE IF i = folder_id
                               THEN [f EXCEPT
                                       !.fileRefs = IF kind = "file" /\ id \notin Range(refs)
                                                    THEN Append(refs, id) ELSE refs,
                                       !.docs = IF kind = "doc" /\ id \notin Range(docs)
                                                THEN Append(docs, id) ELSE docs]
                               ELSE w.remote[i]],
                 !.store = [i \in (DOMAIN w.store \ gone) \cup {id} |->
                              IF i = id
                              THEN IF kind = "doc" THEN SplitLines(file_content)
                                   ELSE file_content
                              ELSE w.store[i]],
                 !.next = IF id = w.next THEN w.next + 1 ELSE w.next],
        res |-> id, kind |-> kind]

\* project_download_file: GET /project/{id}/file/{file.id} for a file, the
\* document pull for a doc (its text, utf-8 encoded).
project_download_file(w, file, type, fail) ==
    IF fail \/ file \notin DOMAIN w.store
    THEN [err |-> "HTTPError", bytes |-> <<>>]
    ELSE IF type = "file" THEN [err |-> "ok", bytes |-> w.store[file]]
    ELSE IF type = "doc"
    THEN [err |-> "ok", bytes |-> Utf8Encode(JoinLines(w.store[file]))]
    ELSE [err |-> "ValueError", bytes |-> <<>>]

\* ------------------------------------------------------ ProjectBytesIO
\* A mode is the tuple of its characters; `"w" in mode` is In("w", mode).
Modes ==
    {<<"r">>, <<"w">>, <<"a">>, <<"r", "+">>, <<"w", "+">>, <<"a", "+">>,
     <<"r", "b">>, <<"w", "b">>, <<"a", "b">>, <<"r", "b", "+">>,
     <<"w", "b", "+">>, <<"a", "b", "+">>}

In(ch, mode) == ch \in Range(mode)

writable(h) == In("w", h.mode) \/ In("a", h.mode) \/ In("+", h.mode)
readable(h) == In("r", h.mode) \/ In("+", h.mode)

\* ProjectBytesIO.__init__ with the line `init_bytes = b""` of the append
\* branch left out: the downloaded content also seeds the buffer.
ProjectBytesIO_seeded(w, file, type, mode, folder_id, filename, path, fail) ==
    LET dl == IF file # NoId /\ ~In("w", mode)
              THEN project_download_file(w, file, type, fail)
              ELSE [err |-> "ok", bytes |-> <<>>]
        calls == IF file # NoId /\ ~In("w", mode)
                 THEN <<Call("project_download_file", file, type, "", <<>>,
                             IF dl.err = "ok" THEN file ELSE NoId)>>
                 ELSE <<>>
    IN [err |-> dl.err, calls |-> calls,
        h |-> [path |-> path, mode |-> mode, file |-> file, file0 |-> file,
               folder_id |-> folder_id, filename |-> filename,
               has_prefix |-> In("a", mode),
               prefix_bytes |-> IF In("a", mode) THEN dl.bytes ELSE <<>>,
               buf |-> dl.bytes,
               pos |-> 0, pending |-> <<>>, binary |-> In("b", mode),
               closed |-> FALSE, ops |-> 0]]

\* ProjectBytesIO.__init__ (and the io.TextIOWrapper around it when the mode
\* is not binary): file is the bound entity's id, NoId for None.
ProjectBytesIO(w, file, type, mode, folder_id, filename, path, fail) ==
    LET dl == IF file # NoId /\ ~In("w", mode)
              THEN project_download_file(w, file, type, fail)
              ELSE [err |-> "ok", bytes |-> <<>>]
        calls == IF file # NoId /\ ~In("w", mode)
                 THEN <<Call("project_download_file", file, type, "", <<>>,
                             IF dl.err = "ok" THEN file ELSE NoId)>>
                 ELSE <<>>
    IN [err |-> dl.err, calls |-> calls,
        h |-> [path |-> path, mode |-> mode, file |-> file, file0 |-> file,
               folder_id |-> folder_id, filename |-> filename,
               has_prefix |-> In("a", mode),
               prefix_bytes |-> IF In("a", mode) THEN dl.bytes ELSE <<>>,
               buf |-> IF In("a", mode) THEN <<>> ELSE dl.bytes,
               pos |-> 0, pending |-> <<>>, binary |-> In("b", mode),
               closed |-> FALSE, ops |-> 0]]

\* io.BytesIO.write at the cursor.
WriteAt(buf, pos, data) ==
    [i \in 1..Max(Len(buf), pos + Len(data)) |->
        IF i > pos /\ i <= pos + Len(data) THEN data[i - pos]
        ELSE IF i <= Len(buf) THEN buf[i] ELSE 0]

\* TextIOWrapper hands its pending text to the buffer before it flushes,
\* reads or closes.
WriteFlush(h) ==
    [h EXCEPT !.buf = WriteAt(h.buf, h.pos, h.pending),
              !.pos = h.pos + Len(h.pending), !.pending = <<>>]

\* write: BytesIO.write, or TextIOWrapper.write (refused without an encoder,
\* i.e. when the buffer was not writable()).
write(h, data) ==
    IF h.closed THEN [err |-> "ValueError", h |-> h]
    ELSE IF h.binary
    THEN [err |-> "ok", h |-> [h EXCEPT !.buf = WriteAt(h.buf, h.pos, data),
                                        !.pos = h.pos + Len(data)]]
    ELSE IF ~writable(h) THEN [err |-> "UnsupportedOperation", h |-> h]
    ELSE [err |-> "ok", h |-> [h EXCEPT !.pending = h.pending \o data]]

\* read(): everything from the cursor to the end.
read(h) ==
    IF h.closed THEN [err |-> "ValueError", h |-> h, data |-> <<>>]
    ELSE IF ~h.binary /\ ~readable(h)
    THEN [err |-> "UnsupportedOperation", h |-> h, data |-> <<>>]
    ELSE LET g == IF h.binary THEN h ELSE WriteFlush(h)
         IN [err |-> "ok", h |-> [g EXCEPT !.pos = Max(g.pos, Len(g.buf))],
             data |-> SubSeq(g.buf, g.pos + 1, Len(g.buf))]

\* flush without its `if self.writable()` test.
flush_unguarded(w, h, fail, kind, keep) ==
    IF h.closed THEN [err |-> "ValueError", w |-> w, h |-> h, calls |-> <<>>]
    ELSE LET data == IF h.has_prefix THEN h.prefix_bytes \o h.buf ELSE h.buf
             r == project_upload_file(w, h.folder_id, h.filename, data, fail, kind, keep)
             c == Call("project_upload_file", h.folder_id, r.kind, h.filename, data, r.res)
         IN IF r.res = NoId
            THEN [err |-> "HTTPError", w |-> w, h |-> h, calls |-> <<c>>]
            ELSE [err |-> "ok", w |-> r.w, h |-> [h EXCEPT !.file = r.res],
                  calls |-> <<c>>]

\* flush as it would be with an optimistic concurrency check: it refuses to
\* upload when the entity the handle is bound to is no longer on the remote.
flush_if_unchanged(w, h, fail, kind, keep) ==
    IF h.closed THEN [err |-> "ValueError", w |-> w, h |-> h, calls |-> <<>>]
    ELSE IF ~writable(h) THEN [err |-> "ok", w |-> w, h |-> h, calls |-> <<>>]
    ELSE IF h.file # NoId /\ h.file \notin DOMAIN w.remote
    THEN [err |-> "ConflictError", w |-> w, h |-> h, calls |-> <<>>]
    ELSE LET data == IF h.has_prefix THEN h.prefix_bytes \o h.buf ELSE h.buf
             r == project_upload_file(w, h.folder_id, h.filename, data, fail, kind, keep)
             c == Call("project_upload_file", h.folder_id, r.kind, h.filename, data, r.res)
         IN IF r.res = NoId
            THEN [err |-> "HTTPError", w |-> w, h |-> h, calls |-> <<c>>]
            ELSE [err |-> "ok", w |-> r.w, h |-> [h EXCEPT !.file = r.res],
                  calls |-> <<c>>]

\* ProjectBytesIO.flush: one upload of prefix + buffer when writable; the
\* bound entity becomes the one the upload returned.
flush(w, h, fail, kind, keep) ==
    IF h.closed THEN [err |-> "ValueError", w |-> w, h |-> h, calls |-> <<>>]
    ELSE IF ~writable(h) THEN [err |-> "ok", w |-> w, h |-> h, calls |-> <<>>]
    ELSE LET data == IF h.has_prefix THEN h.prefix_bytes \o h.buf ELSE h.buf
             r == project_upload_file(w, h.folder_id, h.filename, data, fail, kind, keep)
             c == Call("project_upload_file", h.folder_id, r.kind, h.filename, data, r.res)
         IN IF r.res = NoId
            THEN [err |-> "HTTPError", w |-> w, h |-> h, calls |-> <<c>>]
            ELSE [err |-> "ok", w |-> r.w, h |-> [h EXCEPT !.file = r.res],
                  calls |-> <<c>>]

\* close without its `self.flush()`.
close_without_flush(w, h, fail, kind, keep) ==
    [err |-> "ok", w |-> w, h |-> [h EXCEPT !.closed = TRUE], calls |-> <<>>]

\* ProjectBytesIO.close: flush, then io.BytesIO.close.
close(w, h, fail, kind, keep) ==
    LET f == flush(w, h, fail, kind, keep)
    IN IF f.err # "ok" THEN f
       ELSE [f EXCEPT !.h = [f.h EXCEPT !.closed = TRUE]]

\* TextIOWrapper.flush: pending text to the buffer, then buffer.flush().
text_flush(w, h, fail, kind, keep) ==
    IF h.closed THEN [err |-> "ValueError", w |-> w, h |-> h, calls |-> <<>>]
    ELSE flush(w, WriteFlush(h), fail, kind, keep)

\* TextIOWrapper.close: nothing when the buffer is closed; else flush(), then
\* buffer.close() even when the flush raised. failAt is the upload that fails;
\* f is the outcome of the flush.
BufferClose(f, failAt, kind, keep) ==
    LET c == close(f.w, f.h, failAt = Len(f.calls) + 1, kind, keep)
    IN [err |-> IF f.err # "ok" THEN f.err ELSE c.err, w |-> c.w, h |-> c.h,
        calls |-> f.calls \o c.calls]

text_close(w, h, failAt, kind, keep) ==
    IF h.closed THEN [err |-> "ok", w |-> w, h |-> h, calls |-> <<>>]
    ELSE CHOOSE r \in {BufferClose(f, failAt, kind, keep) :
                          f \in {text_flush(w, h, failAt = 1, kind, keep)}} : TRUE

\* ProjectIO.open: the parent is walked through folders only, the leaf is the
\* first child of that name that is not a folder.
FirstChildWhere(nodes, children, part, folder) ==
    LET hits == {k \in DOMAIN children :
                    /\ nodes[children[k]].name = part
                    /\ (nodes[children[k]].type = "folder") = folder}
    IN IF hits = {} THEN NoId ELSE children[Min(hits)]

RECURSIVE OpenFolder(_, _, _, _)
OpenFolder(nodes, folder, parts, i) ==
    IF i > Len(parts) THEN folder
    ELSE LET child == FirstChildWhere(nodes, nodes[folder].children, parts[i], TRUE)
         IN IF child = NoId THEN NoId ELSE OpenFolder(nodes, child, parts, i + 1)

\* pathlib.PurePath(path).parent.parts and os.path.split(path)[-1].
ParentParts(path) == IF path = <<>> THEN <<>> ELSE SubSeq(path, 1, Len(path) - 1)
LeafName(path) == IF path = <<>> THEN "" ELSE path[Len(path)]

\* open with the append-and-read modes taken for creating ones.
open_plus_creates(nodes, w, path, mode, fail) ==
    LET assert_file_exists == ~(In("+", mode) \/ In("w", mode))
        folder == OpenFolder(nodes, RootId, ParentParts(path), 1)
        filename == LeafName(path)
        file == IF folder = NoId THEN NoId
                ELSE FirstChildWhere(nodes, nodes[folder].children, filename, FALSE)
        none == [err |-> "FileNotFoundError", calls |-> <<>>, h |-> <<>>]
    IN IF folder = NoId THEN none
       ELSE IF file = NoId /\ assert_file_exists THEN none
       ELSE ProjectBytesIO(w, file, IF file = NoId THEN "" ELSE nodes[file].type,
                           mode, folder, filename, path, fail)

open(nodes, w, path, mode, fail) ==
    LET assert_file_exists == ~((In("r", mode) /\ In("+", mode)) \/ In("w", mode))
        folder == OpenFolder(nodes, RootId, ParentParts(path), 1)
        filename == LeafName(path)
        file == IF folder = NoId THEN NoId
                ELSE FirstChildWhere(nodes, nodes[folder].children, filename, FALSE)
        none == [err |-> "FileNotFoundError", calls |-> <<>>, h |-> <<>>]
    IN IF folder = NoId THEN none
       ELSE IF file = NoId /\ assert_file_exists THEN none
       ELSE ProjectBytesIO(w, file, IF file = NoId THEN "" ELSE nodes[file].type,
                           mode, folder, filename, path, fail)

\* ------------------------------------------------------ the Api session
MaxApiOps == 3

Projects == {"p", "q"}

\* RuntimeError("Must call api.login_*() before using the api").
NotInitialized == "RuntimeError: Must call api.login_*()"

\* Api.__init__; log is every HTTP request, socket and login of the Api so far.
NewApi ==
    [session_initialized |-> FALSE, cookies |-> "None", csrf_cache |-> <<>>,
     op |-> "none", err |-> "", log |-> <<>>, n |-> 0]

\* An Api after login_from_cookies, as ProjectIO is given one.
LoggedInApi ==
    [NewApi EXCEPT !.session_initialized = TRUE, !.cookies = {".overleaf.com"}]

ApiRaise(a, err) == [a EXCEPT !.err = err]

\* A session test that lets every call through.
_assert_session_initialized_skipped(a) == TRUE

\* _assert_session_initialized passes.
_assert_session_initialized(a) == a.session_initialized

\* self._get_session().<method>(url) and r.raise_for_status().
Request(a, method, url, ok) ==
    IF ~_assert_session_initialized(a) THEN ApiRaise(a, NotInitialized)
    ELSE [a EXCEPT !.log = Append(@, [ev |-> "http", what |-> <<method, url>>]),
                   !.err = IF ok THEN "ok" ELSE "HTTPError"]

_get_csrf_token(a, project_id, ok) ==
    IF ~_assert_session_initialized(a) THEN ApiRaise(a, NotInitialized)
    ELSE IF a.csrf_cache # <<>> /\ a.csrf_cache[1] = project_id
    THEN [a EXCEPT !.err = "ok"]
    ELSE LET r == Request(a, "GET", "/project/id", ok)
         IN IF r.err = "ok" THEN [r EXCEPT !.csrf_cache = <<project_id, "token">>]
            ELSE r

\* The shape of project_create_folder, project_upload_file and
\* project_delete_entity: the session test, then the request, whose headers
\* need the CSRF token.
WithCsrf(a, project_id, method, url, okCsrf, ok) ==
    IF ~_assert_session_initialized(a) THEN ApiRaise(a, NotInitialized)
    ELSE LET t == _get_csrf_token(a, project_id, okCsrf)
         IN IF t.err # "ok" THEN t ELSE Request(t, method, url, ok)

\* _open_socket as the Api sees it: the session test, the handshake GET, then
\* create_connection.
open_socket(a, okGet, ok) ==
    IF ~_assert_session_initialized(a) THEN ApiRaise(a, NotInitialized)
    ELSE LET r == Request(a, "GET", "/socket.io/1/", okGet)
         IN IF r.err # "ok" THEN r
            ELSE IF ok
            THEN [r EXCEPT !.log = Append(@, [ev |-> "socket", what |-> <<>>])]
            ELSE ApiRaise(r, "ConnectionError")

RemoteOps ==
    {"get_projects", "download_project", "project_get_files",
     "project_create_folder", "project_upload_file", "project_download_file",
     "project_delete_entity", "_get_csrf_token", "_open_socket"}

\* A remote operation of the Api; type is the kind of the entity of a
\* download, ok1 and ok2 the outcomes of its first and second request.
remote_op(a, op, project_id, type, ok1, ok2) ==
    CASE op = "get_projects" ->
           IF ~_assert_session_initialized(a) THEN ApiRaise(a, NotInitialized)
           ELSE Request(a, "GET", "/", ok1)
      [] op = "download_project" ->
           IF ~_assert_session_initialized(a) THEN ApiRaise(a, NotInitialized)
           ELSE Request(a, "GET", "/project/id/download/zip", ok1)
      [] op = "project_get_files" \/ op = "_open_socket" -> open_socket(a, ok1, ok2)
      [] op = "project_create_folder" ->
           WithCsrf(a, project_id, "POST", "/project/id/folder", ok1, ok2)
      [] op = "project_upload_file" ->
           WithCsrf(a, project_id, "POST", "/project/id/upload", ok1, ok2)
      [] op = "project_delete_entity" ->
           WithCsrf(a, project_id, "DELETE", "/project/id/type/entity", ok1, ok2)
      [] op = "project_download_file" ->
           IF ~_assert_session_initialized(a) THEN ApiRaise(a, NotInitialized)
           ELSE IF type = "file" THEN Request(a, "GET", "/project/id/file/id", ok1)
           ELSE IF type = "doc" THEN open_socket(a, ok1, ok2)
           ELSE ApiRaise(a, "ValueError")
      [] op = "_get_csrf_token" -> _get_csrf_token(a, project_id, ok1)

\* The cookies handed to a login: a dict, a CookieJar, or something else; jar
\* cookies carry their domains.
CookieInputs ==
    {[kind |-> "dict", domains |-> {".overleaf.com"}],
     [kind |-> "jar", domains |-> {}],
     [kind |-> "jar", domains |-> {".overleaf.com", "overleaf.com", "example.org"}],
     [kind |-> "other", domains |-> {}]}

\* login_from_cookies: keeps the cookies whose domain ends with .overleaf.com.
login_from_cookies(a, cookies) ==
    IF cookies.kind \notin {"dict", "jar"}
    THEN [a EXCEPT !.err = "AssertionError",
                   !.log = Append(@, [ev |-> "login", what |-> <<"raised">>])]
    ELSE [a EXCEPT !.cookies = cookies.domains \cap {".overleaf.com"},
                   !.session_initialized = TRUE, !.err = "ok",
                   !.log = Append(@, [ev |-> "login", what |-> <<"returned">>])]

\* login_from_browser: browsercookie.load() may raise.
login_from_browser(a, cookies, ok) ==
    IF ~ok THEN [a EXCEPT !.err = "BrowserCookieError",
                          !.log = Append(@, [ev |-> "login", what |-> <<"raised">>])]
    ELSE login_from_cookies(a, cookies)

\* ------------------------------------------------------------- actions
InitStore(tree) ==
    [i \in {j \in DOMAIN tree : tree[j].kind # "folder"} |->
        IF tree[i].kind = "doc" THEN <<<<120>>>> ELSE <<120>>]

Init ==
    /\ \E s \in TreeShapes :
          /\ remote = ShapeTree(s)
          /\ store = InitStore(ShapeTree(s))
          /\ nextId = Len(s) + 1
    /\ cache = [loaded |-> FALSE, nodes |-> <<>>]
    /\ last = NoResult
    /\ nops = 0
    /\ conn = NoConn
    /\ handles = <<>>
    /\ session = LoggedInApi

\* A call whose tree fetch failed: the error of project_get_files propagates.
Raised(op, path, pf) ==
    /\ pf.err # "ok"
    /\ cache' = pf.cache
    /\ last' = [NoResult EXCEPT !.op = op, !.path = path, !.err = pf.err,
                                !.calls = pf.calls]
    /\ UNCHANGED <<remote, store, nextId>>

Exists(path) ==
    /\ nops < MaxOps
    /\ nops' = nops + 1
    /\ UNCHANGED <<conn, handles, session>>
    /\ \E fetchOk \in BOOLEAN :
          LET pf == _project_files(fetchOk) IN
          /\ cache.loaded => fetchOk
          /\ \/ Raised("exists", path, pf)
             \/ /\ pf.err = "ok"
                /\ LET r == exists(pf.cache.nodes, path)
                   IN last' = [NoResult EXCEPT !.op = "exists", !.path = path,
                                               !.err = r.err, !.found = r.found,
                                               !.calls = pf.calls]
                /\ cache' = pf.cache
                /\ UNCHANGED <<remote, store, nextId>>

Listdir(path) ==
    /\ nops < MaxOps
    /\ nops' = nops + 1
    /\ UNCHANGED <<conn, handles, session>>
    /\ \E fetchOk \in BOOLEAN :
          LET pf == _project_files(fetchOk) IN
          /\ cache.loaded => fetchOk
          /\ \/ Raised("listdir", path, pf)
             \/ /\ pf.err = "ok"
                /\ LET r == listdir(pf.cache.nodes, path)
                   IN last' = [NoResult EXCEPT !.op = "listdir", !.path = path,
                                               !.err = r.err, !.names = r.names,
                                               !.calls = pf.calls]
                /\ cache' = pf.cache
                /\ UNCHANGED <<remote, store, nextId>>

Mkdir(path, exist_ok, parents) ==
    /\ nops < MaxOps
    /\ nops' = nops + 1
    /\ UNCHANGED <<conn, handles, session>>
    /\ \E fetchOk \in BOOLEAN, failAt \in 0..MaxDepth :
          LET pf == _project_files(fetchOk) IN
          /\ cache.loaded => fetchOk
          /\ \/ /\ failAt = 0
                /\ Raised("mkdir", path, pf)
             \/ /\ pf.err = "ok"
                /\ LET r == mkdir(pf.cache.nodes, World, path, exist_ok, parents, failAt)
                   IN /\ failAt # 0 => (r.err = "HTTPError" /\ Len(r.calls) = failAt)
                      /\ last' = [NoResult EXCEPT !.op = "mkdir", !.path = path,
                                                  !.exist_ok = exist_ok,
                                                  !.parents = parents, !.err = r.err,
                                                  !.calls = pf.calls \o r.calls]
                      /\ remote' = r.w.remote
                      /\ store' = r.w.store
                      /\ nextId' = r.w.next
                /\ cache' = pf.cache

Remove(path, missing_ok) ==
    /\ nops < MaxOps
    /\ nops' = nops + 1
    /\ UNCHANGED <<conn, handles, session>>
    /\ \E fetchOk \in BOOLEAN, fail \in BOOLEAN :
          LET pf == _project_files(fetchOk) IN
          /\ cache.loaded => fetchOk
          /\ \/ /\ ~fail
                /\ Raised("remove", path, pf)
             \/ /\ pf.err = "ok"
                /\ LET r == remove(pf.cache.nodes, World, path, missing_ok, fail)
                   IN /\ fail => r.err = "HTTPError"
                      /\ last' = [NoResult EXCEPT !.op = "remove", !.path = path,
                                                  !.missing_ok = missing_ok,
                                                  !.err = r.err,
                                                  !.calls = pf.calls \o r.calls]
                      /\ remote' = r.w.remote
                      /\ store' = r.w.store
                      /\ nextId' = r.w.next
                /\ cache' = pf.cache

Next ==
    \/ \E path \in Paths : Exists(path)
    \/ \E path \in Paths : Listdir(path)
    \/ \E path \in Paths, exist_ok \in BOOLEAN, parents \in BOOLEAN :
          Mkdir(path, exist_ok, parents)
    \/ \E path \in Paths, missing_ok \in BOOLEAN : Remove(path, missing_ok)

Spec == Init /\ [][Next]_vars


\* ------------------------------------------------ actions on file handles
\* The paths files are opened at: the trees of Init are less than MaxDepth deep.
FilePaths == {p \in Paths : Len(p) < MaxDepth}

HandleResult(op, i, r) ==
    [NoResult EXCEPT !.op = op, !.h = i, !.path = handles[i].path,
                     !.mode = handles[i].mode, !.err = r.err, !.calls = r.calls]

Open(path, mode) ==
    /\ nops' = nops + 1
    /\ UNCHANGED <<remote, store, nextId, conn, session>>
    /\ \E fetchOk \in BOOLEAN, fail \in BOOLEAN :
          LET pf == _project_files(fetchOk) IN
          /\ cache.loaded => fetchOk
          /\ cache' = pf.cache
          /\ \/ /\ ~fail
                /\ pf.err # "ok"
                /\ last' = [NoResult EXCEPT !.op = "open", !.path = path, !.mode = mode,
                                            !.err = pf.err, !.calls = pf.calls]
                /\ UNCHANGED handles
             \/ /\ pf.err = "ok"
                /\ LET r == open(pf.cache.nodes, World, path, mode, fail)
                   IN /\ fail => r.err = "HTTPError"
                      /\ handles' = IF r.err = "ok" THEN Append(handles, r.h) ELSE handles
                      /\ last' = [NoResult EXCEPT !.op = "open", !.path = path,
                                                  !.mode = mode, !.err = r.err,
                                                  !.h = IF r.err = "ok"
                                                        THEN Len(handles) + 1 ELSE 0,
                                                  !.calls = pf.calls \o r.calls]

Write(i, data) ==
    /\ handles[i].ops < MaxFileOps
    /\ Len(handles[i].buf) + Len(handles[i].pending) + Len(data) <= MaxBuf
    /\ LET r == write(handles[i], data)
       IN /\ handles' = [handles EXCEPT ![i] = [r.h EXCEPT !.ops = @ + 1]]
          /\ last' = [HandleResult("write", i, [err |-> r.err, calls |-> <<>>])
                         EXCEPT !.data = data]
    /\ UNCHANGED <<remote, store, nextId, cache, nops, conn, session>>

Read(i) ==
    /\ handles[i].ops < MaxFileOps
    /\ LET r == read(handles[i])
       IN /\ handles' = [handles EXCEPT ![i] = [r.h EXCEPT !.ops = @ + 1]]
          /\ last' = [HandleResult("read", i, [err |-> r.err, calls |-> <<>>])
                         EXCEPT !.data = r.data]
    /\ UNCHANGED <<remote, store, nextId, cache, nops, conn, session>>

\* What the server decided in an upload: canonical when nothing was uploaded.
ServerChoice(r, kind, keep, failAt) ==
    /\ failAt # 0 => (Len(r.calls) >= failAt /\ r.calls[failAt].res = NoId)
    /\ (\A k \in DOMAIN r.calls : r.calls[k].res = NoId) => (kind = "file" /\ ~keep)
    /\ keep => \E k \in DOMAIN r.calls : r.calls[k].res \in DOMAIN store

Flush(i) ==
    /\ handles[i].ops < MaxFileOps
    /\ \E failAt \in 0..1, kind \in {"file", "doc"}, keep \in BOOLEAN :
          \E r \in {IF handles[i].binary
                    THEN flush(World, handles[i], failAt = 1, kind, keep)
                    ELSE text_flush(World, handles[i], failAt = 1, kind, keep)} :
             /\ ServerChoice(r, kind, keep, failAt)
             /\ handles' = [handles EXCEPT ![i] = [r.h EXCEPT !.ops = @ + 1]]
             /\ last' = HandleResult("flush", i, r)
             /\ remote' = r.w.remote
             /\ store' = r.w.store
             /\ nextId' = r.w.next
    /\ UNCHANGED <<cache, nops, conn, session>>

Close(i) ==
    /\ handles[i].ops < MaxFileOps
    /\ \E failAt \in 0..2, kind \in {"file", "doc"}, keep \in BOOLEAN :
          \E r \in {IF handles[i].binary
                    THEN close(World, handles[i], failAt = 1, kind, keep)
                    ELSE text_close(World, handles[i], failAt, kind, keep)} :
             /\ ServerChoice(r, kind, keep, failAt)
             /\ handles' = [handles EXCEPT ![i] = [r.h EXCEPT !.ops = @ + 1]]
             /\ last' = HandleResult("close", i, r)
             /\ remote' = r.w.remote
             /\ store' = r.w.store
             /\ nextId' = r.w.next
    /\ UNCHANGED <<cache, nops, conn, session>>

FileNext ==
    \/ \E path \in FilePaths, mode \in Modes : nops < MaxHandles /\ Open(path, mode)
    \/ \E i \in DOMAIN handles, data \in Data : Write(i, data)
    \/ \E i \in DOMAIN handles : Read(i)
    \/ \E i \in DOMAIN handles : Flush(i)
    \/ \E i \in DOMAIN handles : Close(i)

FileSpec == Init /\ [][FileNext]_vars

\* All five path operations on one instance; open in a reading and in a
\* creating mode.
CacheModes == {<<"r">>, <<"w", "b">>}

CacheNext ==
    \/ Next
    \/ \E path \in FilePaths, mode \in CacheModes : nops < MaxOps /\ Open(path, mode)

CacheSpec == Init /\ [][CacheNext]_vars

\* One instance writes a file and reads it back: open(path, "wb"), writes,
\* close, then open(path, "rb") and read.
RoundTripOpens == 2
WB == <<"w", "b">>
RB == <<"r", "b">>

RoundTripNext ==
    \/ \E path \in FilePaths \ {<<>>} : nops = 0 /\ Open(path, WB)
    \/ \E data \in Data : Len(handles) = 1 /\ ~handles[1].closed /\ Write(1, data)
    \/ Len(handles) = 1 /\ Close(1)
    \/ /\ Len(handles) >= 1
       /\ handles[1].closed
       /\ nops < RoundTripOpens
       /\ Open(handles[1].path, RB)
    \/ Len(handles) = 2 /\ Read(2)

RoundTripSpec == Init /\ [][RoundTripNext]_vars

\* One instance removes an entity, or creates a file through a "wb" handle,
\* and then looks at the tree with exists and listdir.
StaleNext ==
    \/ \E path \in Paths, missing_ok \in BOOLEAN : nops = 0 /\ Remove(path, missing_ok)
    \/ \E path \in FilePaths \ {<<>>} : nops = 0 /\ Open(path, WB)
    \/ \E data \in Data : Len(handles) = 1 /\ ~handles[1].closed /\ Write(1, data)
    \/ Len(handles) = 1 /\ ~handles[1].closed /\ Close(1)
    \/ \E path \in Paths : Exists(path)
    \/ \E path \in Paths : Listdir(path)

StaleSpec == Init /\ [][StaleNext]_vars


\* Several writers append to one existing file: every handle is opened on the
\* path of the first before any of them writes or closes; a writer appends
\* once and then closes.
Writers == 2
AppendModes == {m \in Modes : In("a", m)}

ConcurrentNext ==
    \/ \E path \in FilePaths \ {<<>>}, mode \in AppendModes : nops = 0 /\ Open(path, mode)
    \/ \E mode \in AppendModes :
          /\ nops >= 1
          /\ nops < Writers
          /\ Len(handles) = nops
          /\ Open(handles[1].path, mode)
    \/ \E i \in DOMAIN handles, data \in Data \ {<<>>} :
          Len(handles) = Writers /\ handles[i].ops = 0 /\ Write(i, data)
    \/ \E i \in DOMAIN handles : Len(handles) = Writers /\ handles[i].ops = 1 /\ Close(i)

ConcurrentSpec == Init /\ [][ConcurrentNext]_vars


FsVars == <<remote, store, nextId, cache, last, nops, handles, session>>

\* ------------------------------------------ actions of the socket exchanges
SockInit ==
    /\ remote = ShapeTree(<<>>)
    /\ store = InitStore(ShapeTree(<<>>))
    /\ nextId = 1
    /\ cache = [loaded |-> FALSE, nodes |-> <<>>]
    /\ last = NoResult
    /\ nops = 0
    /\ conn = NoConn
    /\ handles = <<>>
    /\ session = LoggedInApi

OpenSocket(op) ==
    /\ conn.pc = "idle"
    /\ \E ok \in BOOLEAN : conn' = _open_socket(conn, op, ok)
    /\ UNCHANGED FsVars

GetFilesRecv ==
    /\ conn.op = "project_get_files"
    /\ conn.pc = "recv5"
    /\ NRecv(conn.log) < MaxFrames
    /\ \E f \in Frames, ok \in BOOLEAN : conn' = get_files_recv(conn, f, ok)
    /\ UNCHANGED FsVars

PullRecv ==
    /\ conn.op = "_pull_doc_project_file_content"
    /\ conn.pc \in {"recv5", "recv2", "recv3"}
    /\ NRecv(conn.log) < MaxFrames
    /\ \E f \in Frames, ok \in BOOLEAN : conn' = pull_recv(conn, f, ok)
    /\ UNCHANGED FsVars

PullSend ==
    /\ conn.op = "_pull_doc_project_file_content"
    /\ conn.pc \in {"send1", "send2", "send3"}
    /\ \E ok \in BOOLEAN : conn' = pull_send(conn, ok)
    /\ UNCHANGED FsVars

SockNext ==
    \/ \E op \in {"project_get_files", "_pull_doc_project_file_content"} : OpenSocket(op)
    \/ GetFilesRecv
    \/ PullRecv
    \/ PullSend

SockSpec == SockInit /\ [][SockNext]_vars

\* ------------------------------------------------- actions of the Api
NonApiVars == <<remote, store, nextId, cache, last, nops, conn, handles>>

ApiInit ==
    /\ remote = ShapeTree(<<>>)
    /\ store = InitStore(ShapeTree(<<>>))
    /\ nextId = 1
    /\ cache = [loaded |-> FALSE, nodes |-> <<>>]
    /\ last = NoResult
    /\ nops = 0
    /\ conn = NoConn
    /\ handles = <<>>
    /\ session = NewApi

Login ==
    /\ session.n < MaxApiOps
    /\ \E cookies \in CookieInputs, browser \in BOOLEAN, ok \in BOOLEAN :
          session' = [(IF browser THEN login_from_browser(session, cookies, ok)
                   ELSE login_from_cookies(session, cookies))
                     EXCEPT !.n = @ + 1,
                            !.op = IF browser THEN "login_from_browser"
                                   ELSE "login_from_cookies"]
    /\ UNCHANGED NonApiVars

RemoteOp(op) ==
    /\ session.n < MaxApiOps
    /\ \E project_id \in Projects, type \in Kinds, ok1 \in BOOLEAN, ok2 \in BOOLEAN :
          session' = [remote_op(session, op, project_id, type, ok1, ok2)
                     EXCEPT !.n = @ + 1, !.op = op]
    /\ UNCHANGED NonApiVars

ApiNext ==
    \/ Login
    \/ \E op \in RemoteOps : RemoteOp(op)

ApiSpec == ApiInit /\ [][ApiNext]_vars

\* =============================================================== claims
\* What a path names in a tree, as the specification words it: the entity
\* reached by taking at each level the first child of that name; nothing when
\* a component is missing or lies below a File.
RECURSIVE ResolveFrom(_, _, _, _)
ResolveFrom(nodes, cur, parts, i) ==
    IF i > Len(parts) THEN cur
    ELSE IF nodes[cur].type # "folder" THEN NoId
    ELSE LET c == FirstChild(nodes, nodes[cur].children, parts[i])
         IN IF c = NoId THEN NoId ELSE ResolveFrom(nodes, c, parts, i + 1)

Resolve(nodes, path) == ResolveFrom(nodes, RootId, path, 1)

Prefix(path, n) == SubSeq(path, 1, n)

ChildNames(nodes, id) ==
    [k \in DOMAIN nodes[id].children |-> nodes[nodes[id].children[k]].name]

IsFolderAt(nodes, path) ==
    Resolve(nodes, path) # NoId /\ nodes[Resolve(nodes, path)].type = "folder"

\* Component i of path is missing: everything before it names a folder and
\* that folder has no child of the component's name.
MissingAt(nodes, path, i) ==
    /\ IsFolderAt(nodes, Prefix(path, i - 1))
    /\ FirstChild(nodes, nodes[Resolve(nodes, Prefix(path, i - 1))].children,
                  path[i]) = NoId

\* Component i of path is matched by a child that is not a folder.
NonFolderAt(nodes, path, i) ==
    /\ IsFolderAt(nodes, Prefix(path, i - 1))
    /\ Resolve(nodes, Prefix(path, i)) # NoId
    /\ nodes[Resolve(nodes, Prefix(path, i))].type # "folder"

Creations(calls) == SelectSeq(calls, LAMBDA c : c.api = "project_create_folder")
Deletions(calls) == SelectSeq(calls, LAMBDA c : c.api = "project_delete_entity")
RemoteMutations(calls) == SelectSeq(calls, LAMBDA c : c.api # "project_get_files")

\* The latest call got its tree (the fetch, if one was needed, succeeded).
Fetched == cache.loaded /\ last.err # "RuntimeError"

\* C1: after a successful mkdir every folder it created remotely is a child,
\* in the cached tree, of the parent it was created under; so after
\* mkdir(<<x, y, z>>, parents=True) on an empty root, listdir(<<x, y>>) on the
\* same instance returns <<z>>.
C1_MkdirInsertsIntoCachedTree ==
    (last.op = "mkdir" /\ last.err = "ok") =>
        /\ \A k \in DOMAIN Creations(last.calls) :
              LET c == Creations(last.calls)[k]
              IN /\ c.target \in DOMAIN cache.nodes
                 /\ c.res \in DOMAIN cache.nodes
                 /\ c.res \in Range(cache.nodes[c.target].children)
        /\ (Len(last.path) = 3 /\ last.parents /\ Len(Creations(last.calls)) = 3
            /\ remote[RootId].folders = <<Creations(last.calls)[1].res>>
            /\ remote[RootId].fileRefs = <<>> /\ remote[RootId].docs = <<>>)
           => listdir(cache.nodes, Prefix(last.path, 2))
                 = [err |-> "ok", names |-> <<last.path[3]>>]

\* C2: listdir(path) returns the child names of the folder the path names, in
\* child order, and fails with FileNotFoundError when the path names a File or
\* nothing.
C2_ListdirNotFoundUnlessFolder ==
    (last.op = "listdir" /\ Fetched) =>
        IF IsFolderAt(cache.nodes, last.path)
        THEN /\ last.err = "ok"
             /\ last.names = ChildNames(cache.nodes, Resolve(cache.nodes, last.path))
        ELSE last.err = "FileNotFoundError"

\* C3: exists(path) returns a boolean and never fails, whatever the path and
\* the cached tree.
C3_ExistsNeverFails ==
    (last.op = "exists" /\ Fetched) =>
        /\ last.err = "ok"
        /\ last.found = (Resolve(cache.nodes, last.path) # NoId)

\* C6: a mkdir(path, parents=True, exist_ok=True) that directly follows a
\* successful one with the same path succeeds, creates no folder remotely and
\* leaves the tree as it was.
C6_MkdirParentsExistOkIdempotent ==
    [][(/\ last.op = "mkdir" /\ last.err = "ok" /\ last.parents /\ last.exist_ok
        /\ nops' = nops + 1
        /\ last'.op = "mkdir" /\ last'.path = last.path
        /\ last'.parents /\ last'.exist_ok)
       => (/\ last'.err = "ok"
           /\ Creations(last'.calls) = <<>>
           /\ remote' = remote
           /\ cache' = cache)]_vars

\* C7: mkdir with parents=False on a path with a missing non-final component
\* fails with FileNotFoundError, creates nothing remotely and leaves the
\* cached tree as it was.
C7_MkdirNoParentsFailsNotFound ==
    [][(/\ nops' = nops + 1
        /\ last'.op = "mkdir" /\ ~last'.parents
        /\ cache'.loaded /\ last'.err # "RuntimeError"
        /\ \E i \in 1..(Len(last'.path) - 1) : MissingAt(cache'.nodes, last'.path, i))
       => (/\ last'.err = "FileNotFoundError"
           /\ RemoteMutations(last'.calls) = <<>>
           /\ remote' = remote
           /\ cache'.nodes = IF cache.loaded THEN cache.nodes ELSE from_data(remote))]_vars

C7_Witness ==
    /\ last.op = "mkdir" /\ ~last.parents /\ Fetched
    /\ Len(last.path) = 3
    /\ IsFolderAt(cache.nodes, Prefix(last.path, 1))
    /\ MissingAt(cache.nodes, last.path, 2)
    /\ last.err = "FileNotFoundError"

\* C8: mkdir fails with FileExistsError whenever the child matched for a
\* component is not a folder, whatever exist_ok and parents; when the whole
\* path names a folder it fails with FileExistsError if exist_ok is false and
\* succeeds without a remote call if exist_ok is true.
C8_MkdirConflicts ==
    (last.op = "mkdir" /\ Fetched) =>
        /\ (\E i \in 1..Len(last.path) : NonFolderAt(cache.nodes, last.path, i))
              => (last.err = "FileExistsError" /\ RemoteMutations(last.calls) = <<>>)
        /\ (Len(last.path) >= 1 /\ IsFolderAt(cache.nodes, last.path))
              => IF last.exist_ok
                 THEN last.err = "ok" /\ RemoteMutations(last.calls) = <<>>
                 ELSE last.err = "FileExistsError" /\ RemoteMutations(last.calls) = <<>>

C8_Witness ==
    /\ last.op = "mkdir" /\ Fetched
    /\ last.exist_ok /\ last.parents
    /\ Len(last.path) = 2
    /\ NonFolderAt(cache.nodes, last.path, 1)
    /\ last.err = "FileExistsError"

\* C9: remove(path, missing_ok) on a path that names nothing fails with
\* FileNotFoundError unless missing_ok, and then returns without a remote
\* call; on a path that names an entity it issues exactly one remote delete,
\* keyed by the entity's id and kind.
C9_RemoveContract ==
    (last.op = "remove" /\ Fetched) =>
        LET e == Resolve(cache.nodes, last.path)
        IN IF e = NoId
           THEN /\ last.err = IF last.missing_ok THEN "ok" ELSE "FileNotFoundError"
                /\ RemoteMutations(last.calls) = <<>>
           ELSE /\ Len(RemoteMutations(last.calls)) = 1
                /\ RemoteMutations(last.calls)[1].api = "project_delete_entity"
                /\ RemoteMutations(last.calls)[1].target = e
                /\ RemoteMutations(last.calls)[1].kind = cache.nodes[e].type


\* C5: a type-7 frame received at any wait point of the join-project exchange
\* of project_get_files or of the document pull aborts the call with the
\* unauthorized failure and leaves the socket closed exactly once.
SawFrame7 ==
    \E k \in DOMAIN conn.log : conn.log[k].ev = "recv" /\ conn.log[k].what[1] = "7"

C5_Frame7AbortsAndClosesOnce ==
    SawFrame7 =>
        /\ conn.pc = "raised"
        /\ conn.err = "RuntimeError"
        /\ conn.socket = "closed"
        /\ conn.closes = 1

\* The part of C5 the code keeps: in the document pull a type-7 frame at any
\* of the three wait points aborts with RuntimeError and the socket is closed
\* exactly once; project_get_files aborts with RuntimeError too but leaves
\* its socket open.
C5_Frame7AsCoded ==
    SawFrame7 =>
        /\ conn.pc = "raised"
        /\ conn.err = "RuntimeError"
        /\ conn.op = "_pull_doc_project_file_content"
              => (conn.socket = "closed" /\ conn.closes = 1)
        /\ conn.op = "project_get_files"
              => (conn.socket = "open" /\ conn.closes = 0)

\* C4: on one instance, after open(path, "wb"), writing B and a successful
\* close, open(path, "rb") succeeds and read() returns exactly B, whether the
\* file existed before or was created by the write. (A failed download of an
\* entity the server still has is a transport failure, outside the claim.)
C4_RoundTripSameInstance ==
    /\ (last.op = "open" /\ nops = 2 /\ Fetched) =>
          \/ last.err = "ok"
          \/ /\ last.err = "HTTPError"
             /\ last.calls[Len(last.calls)].target \in DOMAIN store
    /\ (last.op = "read" /\ last.h = 2) =>
          (last.err = "ok" /\ last.data = handles[1].buf)

\* The modes that need the target to be there, and those that may create it.
MustExistModes ==
    {<<"r">>, <<"r", "b">>, <<"a">>, <<"a", "b">>, <<"a", "+">>, <<"a", "b", "+">>}
CreateModes ==
    {<<"w">>, <<"w", "b">>, <<"w", "+">>, <<"w", "b", "+">>, <<"r", "+">>,
     <<"r", "b", "+">>}

\* The folder named by the parent of path has no non-folder child named like
\* the leaf of path.
NoLeafAt(nodes, path) ==
    /\ IsFolderAt(nodes, ParentParts(path))
    /\ ~\E c \in Range(nodes[Resolve(nodes, ParentParts(path))].children) :
           nodes[c].name = LeafName(path) /\ nodes[c].type # "folder"

\* C10: open(path, mode) fails with FileNotFoundError, before any download or
\* upload, exactly when (a) the parent of path does not name a folder or (b)
\* the parent folder has no non-folder child named like the leaf and the mode
\* is one of r, rb, a, ab, a+, ab+; with no such child and one of w, wb, w+,
\* wb+, r+, rb+ it returns a handle with no bound entity.
C10_OpenNotFound ==
    (last.op = "open" /\ Fetched) =>
        LET a == ~IsFolderAt(cache.nodes, ParentParts(last.path))
            b == NoLeafAt(cache.nodes, last.path) /\ last.mode \in MustExistModes
        IN /\ (last.err = "FileNotFoundError") <=> (a \/ b)
           /\ (a \/ b) => RemoteMutations(last.calls) = <<>>
           /\ (NoLeafAt(cache.nodes, last.path) /\ last.mode \in CreateModes)
                 => /\ last.err = "ok"
                    /\ last.h \in DOMAIN handles
                    /\ handles[last.h].file = NoId
                    /\ RemoteMutations(last.calls) = <<>>

C10_Witness ==
    /\ last.op = "open" /\ Fetched
    /\ last.mode = <<"a", "+">>
    /\ Len(last.path) = 2
    /\ NoLeafAt(cache.nodes, last.path)
    /\ last.err = "FileNotFoundError"
    /\ handles = <<>>
\* The bytes a download of entity id returns from the server state (r, s).
EntityBytes(r, s, id) == IF r[id].kind = "doc" THEN JoinLines(s[id]) ELSE s[id]

Uploads(calls) == SelectSeq(calls, LAMBDA c : c.api = "project_upload_file")

\* C11: a handle opened in an append mode on an existing file whose remote
\* content is P starts with an empty buffer and P as its prefix; no step
\* changes the prefix; every upload of a flush or close of the handle carries
\* P followed by the buffer.
C11_AppendKeepsPrefix ==
    [][/\ (last'.op = "open" /\ last'.err = "ok" /\ In("a", last'.mode))
             => LET h == handles'[last'.h]
                IN /\ h.file0 # NoId
                   /\ h.buf = <<>> /\ h.pos = 0 /\ h.pending = <<>>
                   /\ h.prefix_bytes = EntityBytes(remote', store', h.file0)
       /\ \A i \in DOMAIN handles :
             In("a", handles[i].mode)
                => handles'[i].prefix_bytes = handles[i].prefix_bytes
       /\ (last'.op \in {"flush", "close"} /\ In("a", last'.mode))
             => \A k \in DOMAIN Uploads(last'.calls) :
                   Uploads(last'.calls)[k].data =
                       handles'[last'.h].prefix_bytes \o handles'[last'.h].buf]_vars

C11_Witness ==
    /\ last.op = "close" /\ last.err = "ok"
    /\ In("a", last.mode)
    /\ handles[last.h].prefix_bytes # <<>>
    /\ handles[last.h].buf # <<>>
    /\ Len(Uploads(last.calls)) >= 1
    /\ Uploads(last.calls)[1].data = handles[last.h].prefix_bytes \o handles[last.h].buf
\* The full current content of a handle: its prefix, if it is an append
\* handle, followed by its whole buffer.
Content(h) == (IF In("a", h.mode) THEN h.prefix_bytes ELSE <<>>) \o h.buf

ReadOnly(h) == h.mode \in {<<"r">>, <<"r", "b">>}

\* C12: each flush of an open writable handle issues exactly one upload, of
\* the full current content under the handle's folder and name, and on
\* success binds the handle to the entity the upload returned; a flush of a
\* read-only handle (r, rb) issues none, and no read, write, flush or close of
\* a read-only handle uploads or changes the server.
C12_FlushUploadsOnce ==
    [][\A i \in DOMAIN handles :
          (handles'[i].ops = handles[i].ops + 1) =>
             /\ (last'.op = "flush" /\ ~handles[i].closed /\ ~ReadOnly(handles[i]))
                   => /\ Len(last'.calls) = 1
                      /\ last'.calls[1].api = "project_upload_file"
                      /\ last'.calls[1].target = handles[i].folder_id
                      /\ last'.calls[1].name = handles[i].filename
                      /\ last'.calls[1].data = Content(handles'[i])
                      /\ IF last'.err = "ok"
                         THEN /\ last'.calls[1].res # NoId
                              /\ handles'[i].file = last'.calls[1].res
                         ELSE handles'[i].file = handles[i].file
             /\ ReadOnly(handles[i])
                   => /\ Uploads(last'.calls) = <<>>
                      /\ remote' = remote /\ store' = store
                      /\ (last'.op = "flush" /\ ~handles[i].closed) => last'.err = "ok"]_vars

C12_Witness ==
    /\ last.op = "flush" /\ last.err = "ok"
    /\ handles[last.h].ops >= 2
    /\ handles[last.h].buf # <<>>
    /\ Len(Uploads(last.calls)) = 1
    /\ handles[last.h].file = last.calls[1].res
    /\ handles[last.h].file # handles[last.h].file0
\* C13: a close (explicit, or the one a `with` block makes on exit) of an
\* open writable handle, binary or text, uploads everything written to it,
\* text still pending in the wrapper included, and releases the buffer only
\* after an upload succeeded: the handle ends closed only if the last upload
\* of the close succeeded, every upload of the close carries the content, and
\* the server then holds it.
C13_CloseFlushesFirst ==
    [][\A i \in DOMAIN handles :
          (/\ handles'[i].ops = handles[i].ops + 1
           /\ last'.op = "close"
           /\ ~handles[i].closed
           /\ writable(handles[i]))
          => LET ups == Uploads(last'.calls)
             IN /\ ups # <<>>
                /\ \A k \in DOMAIN ups : ups[k].data = Content(WriteFlush(handles[i]))
                /\ handles'[i].closed <=> ups[Len(ups)].res # NoId
                /\ handles'[i].closed
                      => EntityBytes(remote', store', ups[Len(ups)].res)
                            = ups[Len(ups)].data]_vars

C13_Witness ==
    /\ last.op = "close" /\ last.err = "ok"
    /\ last.mode = <<"w">>
    /\ handles[last.h].ops = 2
    /\ handles[last.h].closed
    /\ handles[last.h].buf # <<>>
    /\ Uploads(last.calls)[Len(Uploads(last.calls))].data = handles[last.h].buf
IsPull == conn.op = "_pull_doc_project_file_content"
Exited == conn.pc \in {"returned", "raised"}

\* C14: in the document pull, once the socket is open every exit (normal
\* return, a type-7 frame at any wait point, a send or receive that raises)
\* leaves it closed, it is closed at most once, and nothing is sent or
\* received after the close.
C14_PullClosesOnce ==
    IsPull =>
        /\ conn.closes <= 1
        /\ (Exited /\ conn.socket # "none") => (conn.socket = "closed" /\ conn.closes = 1)
        /\ conn.socket = "closed" => Exited
        /\ \A k \in DOMAIN conn.log : conn.log[k].ev = "close" => k = Len(conn.log)
        /\ conn.closes = Len(SelectSeq(conn.log, LAMBDA e : e.ev = "close"))

C14_Witness ==
    /\ IsPull
    /\ conn.pc = "raised"
    /\ conn.err = "WebSocketTimeoutException"
    /\ \E k \in DOMAIN conn.log : conn.log[k] = Sent("5:3+::leaveDoc")
    /\ conn.socket = "closed" /\ conn.closes = 1
\* The joinDoc ack of a pull: the first frame with prefix 6:::2+ received
\* after joinDoc was sent.
JoinDocAck ==
    LET sent == Min({k \in DOMAIN conn.log : conn.log[k] = Sent("5:2+::joinDoc")})
        k == Min({j \in DOMAIN conn.log :
                     /\ j > sent
                     /\ conn.log[j].ev = "recv"
                     /\ conn.log[j].what = P6_2})
    IN conn.log[k].body

\* The text of each line list, written out: lines joined by one newline (10),
\* nothing added at the end.
TextOf(lines) ==
    CASE lines = <<>> -> <<>>
      [] lines = <<<<72>>>> -> <<72>>
      [] lines = <<<<72>>, <<87>>>> -> <<72, 10, 87>>
      [] lines = <<<<>>, <<72, 87>>>> -> <<10, 72, 87>>
      [] lines = <<<<233>>>> -> <<233>>

\* Its UTF-8 bytes.
BytesOf(lines) ==
    IF lines = <<<<233>>>> THEN <<195, 169>> ELSE TextOf(lines)

\* C15: a document pull that returns, returns the lines at index 1 of the
\* JSON array of the joinDoc ack frame joined by single newlines, without a
\* trailing newline (lines H, W give H\nW); the download of a doc is that text
\* UTF-8 encoded.
C15_PullReturnsJoinedLines ==
    (IsPull /\ conn.pc = "returned") =>
        /\ conn.text = TextOf(JoinDocAck[2])
        /\ Utf8Encode(conn.text) = BytesOf(JoinDocAck[2])
        /\ project_download_file([remote |-> remote,
                                  store |-> [id \in {1} |-> JoinDocAck[2]]],
                                 1, "doc", FALSE)
              = [err |-> "ok", bytes |-> BytesOf(JoinDocAck[2])]

C15_Witness ==
    /\ IsPull /\ conn.pc = "returned"
    /\ JoinDocAck[2] = <<<<72>>, <<87>>>>
    /\ conn.text = <<72, 10, 87>>
LoginReturned(log) ==
    \E k \in DOMAIN log : log[k].ev = "login" /\ log[k].what = <<"returned">>
NoLoginCall(log) == \A k \in DOMAIN log : log[k].ev # "login"

\* C16: before any login call every remote operation of the Api (project
\* listing, zip download, tree fetch, folder creation, file upload, file
\* download, entity delete, CSRF token fetch, socket open) fails with the
\* session-not-initialized error, issues no HTTP request and opens no socket;
\* after a login call that returned, none fails with that error.
C16_SessionRequired ==
    [][(session'.n = session.n + 1 /\ session'.op \in RemoteOps) =>
          /\ NoLoginCall(session.log)
                => (session'.err = NotInitialized /\ session'.log = session.log)
          /\ LoginReturned(session.log) => session'.err # NotInitialized]_vars

C16_Witness ==
    /\ session.n = 3
    /\ session.op = "project_upload_file" /\ session.err = "ok"
    /\ session.log[1] = [ev |-> "login", what |-> <<"returned">>]
    /\ Len(session.log) = 4
Fetches(calls) == SelectSeq(calls, LAMBDA c : c.api = "project_get_files")

\* C17: over any sequence of exists, listdir, open, mkdir and remove on one
\* instance: an operation fetches the tree exactly when the cache is empty,
\* and then once, before anything else; a fetch that succeeds fills the cache
\* with the tree the server holds and one that fails leaves it empty; a filled
\* cache is never fetched again nor replaced (only mkdir may add to it). So
\* the fetch succeeds at most once and every later operation resolves against
\* that snapshot.
C17_TreeFetchedOnce ==
    [][(nops' = nops + 1) =>
          IF cache.loaded
          THEN /\ Fetches(last'.calls) = <<>>
               /\ cache'.loaded
               /\ DOMAIN cache.nodes \subseteq DOMAIN cache'.nodes
               /\ last'.op # "mkdir" => cache' = cache
          ELSE /\ Len(Fetches(last'.calls)) = 1
               /\ last'.calls[1].api = "project_get_files"
               /\ IF last'.calls[1].res # NoId
                  THEN cache' = [loaded |-> TRUE, nodes |-> from_data(remote)]
                  ELSE /\ cache' = cache
                       /\ last'.err = "RuntimeError"
                       /\ Len(last'.calls) = 1]_vars

C17_Witness ==
    /\ nops = 2
    /\ last.op = "open"
    /\ cache.loaded
    /\ Len(Fetches(last.calls)) = 1
    /\ last.calls[1].res # NoId
\* C18: an entity delete and a file upload leave the cached tree as it was:
\* after a remove(path) that deleted an entity, exists(path) on the same
\* instance still returns true and listdir of its parent still lists it;
\* after a close that created a file at a path that named nothing,
\* exists(path) on the same instance still returns false.
C18_UploadDeleteKeepCache ==
    [][/\ (cache.loaded /\ last'.op \in {"remove", "write", "flush", "close"})
             => cache' = cache
       /\ (/\ nops' = nops + 1
           /\ last.op = "remove" /\ last.err = "ok" /\ Deletions(last.calls) # <<>>)
          => /\ (last'.op = "exists" /\ last'.path = last.path /\ last'.err # "RuntimeError")
                   => (last'.err = "ok" /\ last'.found)
             /\ (/\ last'.op = "listdir" /\ last.path # <<>>
                 /\ last'.path = ParentParts(last.path))
                   => (last'.err = "ok" /\ LeafName(last.path) \in Range(last'.names))
       /\ (/\ nops' = nops + 1
           /\ last.op = "close" /\ last.err = "ok"
           /\ handles[last.h].file0 = NoId
           /\ Resolve(cache.nodes, last.path) = NoId
           /\ last'.op = "exists" /\ last'.path = last.path)
          => (last'.err = "ok" /\ ~last'.found)]_vars

C18_Witness ==
    /\ nops = 2
    /\ last.op = "exists" /\ last.err = "ok"
    /\ ~last.found
    /\ Len(handles) = 1 /\ handles[1].closed /\ handles[1].path = last.path
    /\ exists(from_data(remote), last.path).found
\* The three requests the pull sends with an ack id, and the prefix of the
\* frame that acknowledges each.
S1 == Sent("5:1+::clientTracking.getConnectedUsers")
S2 == Sent("5:2+::joinDoc")
S3 == Sent("5:3+::leaveDoc")
AckPrefix(s) ==
    IF s = S1 THEN <<"6", ":", ":", ":", "1", "+">>
    ELSE IF s = S2 THEN <<"6", ":", ":", ":", "2", "+">>
    ELSE <<"6", ":", ":", ":", "3", "+">>

RecvWith(log, j, prefix) ==
    /\ log[j].ev = "recv"
    /\ Len(log[j].what) >= Len(prefix)
    /\ SubSeq(log[j].what, 1, Len(prefix)) = prefix

\* The requests sent and not yet acknowledged.
Outstanding(log) ==
    {s \in {S1, S2, S3} :
        \E k \in DOMAIN log :
           /\ log[k] = s
           /\ ~\E j \in DOMAIN log : j > k /\ RecvWith(log, j, AckPrefix(s))}

\* C19: at every point of the document pull at most one of the requests sent
\* with an ack id (1+, 2+, 3+) is waiting for its ack frame.
C19_OneOutstandingRequest ==
    IsPull => Cardinality(Outstanding(conn.log)) <= 1

Sends(log) == SelectSeq(log, LAMBDA e : e.ev = "send")
IndexOf(log, s) == Min({k \in DOMAIN log : log[k] = s})

\* C20: in the document pull nothing is sent before a frame with prefix 5: was
\* received; the sends are getConnectedUsers, joinDoc, leaveDoc in that order;
\* leaveDoc is sent only after a frame with prefix 6:::2+ was received after
\* joinDoc; and a pull that returns closed the socket only after a frame with
\* prefix 6:::3+ was received after leaveDoc.
C20_PullOrdering ==
    IsPull =>
        /\ \A k \in DOMAIN conn.log :
              conn.log[k].ev = "send"
                 => \E j \in 1..(k - 1) : RecvWith(conn.log, j, <<"5", ":">>)
        /\ Sends(conn.log) = SubSeq(<<S1, S2, S3>>, 1, Len(Sends(conn.log)))
        /\ (\E k \in DOMAIN conn.log : conn.log[k] = S3)
              => \E j \in DOMAIN conn.log :
                    /\ IndexOf(conn.log, S2) < j /\ j < IndexOf(conn.log, S3)
                    /\ RecvWith(conn.log, j, <<"6", ":", ":", ":", "2", "+">>)
        /\ conn.pc = "returned"
              => /\ conn.log[Len(conn.log)] = Closed
                 /\ \E k \in DOMAIN conn.log : conn.log[k] = S3
                 /\ \E j \in DOMAIN conn.log :
                       /\ IndexOf(conn.log, S3) < j
                       /\ RecvWith(conn.log, j, <<"6", ":", ":", ":", "3", "+">>)

C20_Witness ==
    /\ IsPull /\ conn.pc = "returned"
    /\ Len(Sends(conn.log)) = 3
    /\ NRecv(conn.log) = 4
    /\ conn.closes = 1

\* The components of path a mkdir finds in the tree it walked: the longest
\* prefix that names a folder.
Found(nodes, path) ==
    CHOOSE n \in 0..Len(path) :
        /\ IsFolderAt(nodes, Prefix(path, n))
        /\ \A m \in (n + 1)..Len(path) : ~IsFolderAt(nodes, Prefix(path, m))

\* C21: mkdir with parents=True issues its folder creations in path order, the
\* first under the deepest existing folder and each later one under the folder
\* the previous creation returned; when a creation fails the error reaches the
\* caller, it is the last remote call, nothing is deleted and the folders
\* created before it are still on the remote.
C21_MkdirParentsOrderNoRollback ==
    [][(/\ nops' = nops + 1
        /\ last'.op = "mkdir" /\ last'.parents
        /\ cache'.loaded /\ last'.err # "RuntimeError")
       => LET path == last'.path
              cs == RemoteMutations(last'.calls)
              n == Found(cache'.nodes, path)
          IN /\ cs = Creations(last'.calls)
             /\ n + Len(cs) <= Len(path)
             /\ \A k \in DOMAIN cs :
                   /\ cs[k].name = path[n + k]
                   /\ cs[k].target = IF k = 1 THEN Resolve(cache'.nodes, Prefix(path, n))
                                     ELSE cs[k - 1].res
                   /\ k < Len(cs) => cs[k].res # NoId
                   /\ cs[k].res # NoId =>
                         /\ cs[k].res \notin DOMAIN remote
                         /\ cs[k].res \in DOMAIN remote'
                         /\ remote'[cs[k].res].kind = "folder"
                         /\ remote'[cs[k].res].name = path[n + k]
                         /\ cs[k].res \in Range(remote'[cs[k].target].folders)
             /\ (cs # <<>> /\ cs[Len(cs)].res = NoId) <=> last'.err = "HTTPError"
             /\ (last'.err = "ok" /\ cs # <<>>) => n + Len(cs) = Len(path)
             /\ DOMAIN remote \subseteq DOMAIN remote']_vars

\* A mkdir -p whose second creation failed: the first folder is on the remote.
C21_Witness ==
    /\ last.op = "mkdir" /\ last.parents /\ Fetched
    /\ last.err = "HTTPError"
    /\ Len(Creations(last.calls)) = 2
    /\ Creations(last.calls)[1].res \in DOMAIN remote
    /\ Creations(last.calls)[2].target = Creations(last.calls)[1].res
    /\ Creations(last.calls)[2].res = NoId

\* The entity a handle's uploads write to: the non-folder child of the
\* handle's folder that bears its filename.
Target(r, h) ==
    {i \in Range(r[h.folder_id].fileRefs \o r[h.folder_id].docs) : r[i].name = h.filename}

\* C22: handles opened in append mode on one existing file before any of them
\* is closed all hold the same prefix P; a close succeeds unless the server
\* rejects one of its own uploads, whatever the other writers did; and after a
\* close the file's content is P followed by what the closing handle wrote, so
\* the last close wins and what the other handles appended is lost.
C22_LastCloseWins ==
    [][\A i \in DOMAIN handles :
          (/\ Len(handles) = Writers
           /\ ~handles[i].closed
           /\ last'.op = "close" /\ last'.h = i)
          => LET ups == Uploads(last'.calls)
                 P == handles[i].prefix_bytes
             IN /\ \A j \in DOMAIN handles :
                      /\ handles[j].prefix_bytes = P
                      /\ handles[j].folder_id \in DOMAIN remote
                      /\ \A kind \in {"file", "doc"}, keep \in BOOLEAN :
                            project_upload_file(World, handles[j].folder_id,
                                                handles[j].filename, Content(handles[j]),
                                                FALSE, kind, keep).res # NoId
                /\ ups # <<>>
                /\ (last'.err = "ok") <=> (\A k \in DOMAIN ups : ups[k].res # NoId)
                /\ last'.err \in {"ok", "HTTPError"}
                /\ last'.err = "ok" =>
                      /\ handles'[i].closed
                      /\ \E id \in DOMAIN remote' :
                            /\ Target(remote', handles[i]) = {id}
                            /\ EntityBytes(remote', store', id) = P \o handles'[i].buf]_vars

\* Two writers appended different data and both closed: the file holds the
\* prefix and the data of the one that closed last, and no longer the data of
\* the one that closed first.
C22_Witness ==
    /\ Len(handles) = Writers
    /\ \A i \in DOMAIN handles : handles[i].closed /\ Len(handles[i].prefix_bytes) > 0
    /\ handles[1].buf # handles[2].buf
    /\ Len(handles[1].buf) > 0 /\ Len(handles[2].buf) > 0
    /\ last.op = "close" /\ last.h = 2 /\ last.err = "ok"
    /\ \E id \in DOMAIN remote :
          /\ Target(remote, handles[2]) = {id}
          /\ EntityBytes(remote, store, id) = handles[2].prefix_bytes \o handles[2].buf
          /\ EntityBytes(remote, store, id) # handles[1].prefix_bytes \o handles[1].buf

\* The rank of a child in the order of a decoded folder.
KindRank(type) == CASE type = "folder" -> 1 [] type = "file" -> 2 [] type = "doc" -> 3

\* c is the first child of folder `id` that bears the name and satisfies want.
FirstNamed(nodes, id, name, want(_), c) ==
    \E k \in DOMAIN nodes[id].children :
        /\ nodes[id].children[k] = c
        /\ nodes[c].name = name /\ want(nodes[c].type)
        /\ \A j \in 1..(k - 1) :
              ~(nodes[nodes[id].children[j]].name = name
                /\ want(nodes[nodes[id].children[j]].type))

AnyType(t) == TRUE
FolderType(t) == t = "folder"
FileType(t) == t # "folder"

\* The parent of path names a folder that has a sub-folder and a file or doc
\* both called by the last component of path.
SharedName(nodes, path) ==
    /\ path # <<>>
    /\ IsFolderAt(nodes, ParentParts(path))
    /\ \E f, g \in Range(nodes[Resolve(nodes, ParentParts(path))].children) :
          /\ nodes[f].name = LeafName(path) /\ nodes[f].type = "folder"
          /\ nodes[g].name = LeafName(path) /\ nodes[g].type # "folder"

\* C23: a decoded folder lists its sub-folders, then its plain files, then its
\* docs; a path operation that returns takes at every level the first child of
\* the component's name; so a name shared by a folder and a file is the folder
\* for exists, listdir and remove, and the first child that is not a folder
\* for open.
C23_FirstMatchFoldersFirst ==
    (cache.loaded /\ last.err # "RuntimeError") =>
        /\ \A id \in DOMAIN cache.nodes :
              cache.nodes[id].type = "folder" =>
                 \A k, l \in DOMAIN cache.nodes[id].children :
                    k < l => KindRank(cache.nodes[cache.nodes[id].children[k]].type)
                               <= KindRank(cache.nodes[cache.nodes[id].children[l]].type)
        /\ (last.op \in {"exists", "listdir", "remove"} /\ last.err # "AttributeError")
              => \A n \in 1..Len(last.path) :
                    Resolve(cache.nodes, Prefix(last.path, n)) # NoId =>
                       FirstNamed(cache.nodes, Resolve(cache.nodes, Prefix(last.path, n - 1)),
                                  last.path[n], AnyType,
                                  Resolve(cache.nodes, Prefix(last.path, n)))
        /\ (last.op = "open" /\ last.err = "ok")
              => handles[last.h].folder_id = Resolve(cache.nodes, ParentParts(last.path))
        /\ (last.op \in {"exists", "listdir", "remove", "open"}
            /\ SharedName(cache.nodes, last.path))
              => LET parent == Resolve(cache.nodes, ParentParts(last.path))
                     leaf == LeafName(last.path)
                     d == CHOOSE c \in DOMAIN cache.nodes :
                             FirstNamed(cache.nodes, parent, leaf, FolderType, c)
                     f == CHOOSE c \in DOMAIN cache.nodes :
                             FirstNamed(cache.nodes, parent, leaf, FileType, c)
                 IN /\ FirstNamed(cache.nodes, parent, leaf, AnyType, d)
                    /\ last.op = "exists" => (last.err = "ok" /\ last.found)
                    /\ last.op = "listdir"
                          => (last.err = "ok" /\ last.names = ChildNames(cache.nodes, d))
                    /\ last.op = "remove"
                          => /\ Len(Deletions(last.calls)) = 1
                             /\ Deletions(last.calls)[1].target = d
                             /\ Deletions(last.calls)[1].kind = "folder"
                    /\ (last.op = "open" /\ last.err = "ok")
                          => handles[last.h].file0 = f
                    /\ (last.op = "open" /\ last.err # "ok")
                          => last.err = "HTTPError"

\* remove of a name that a folder and a file share deleted the folder.
C23_Witness ==
    /\ last.op = "remove" /\ Fetched /\ last.err = "ok"
    /\ SharedName(cache.nodes, last.path)
    /\ Len(Deletions(last.calls)) = 1
    /\ Deletions(last.calls)[1].kind = "folder"
    /\ \E g \in DOMAIN remote : remote[g].name = LeafName(last.path) /\ remote[g].kind # "folder"

\* Entry j of the log is a received frame that a wait for `prefix` discards:
\* it has neither that prefix nor the prefix 7:.
Discarded(log, j, prefix) ==
    /\ log[j].ev = "recv"
    /\ ~RecvWith(log, j, prefix)
    /\ ~RecvWith(log, j, P7)

HasSent(s) == \E k \in DOMAIN conn.log : conn.log[k] = s

\* C24: in the document pull, while the client waits for the joinDoc response
\* every frame that is neither 7: nor 6:::2+ is discarded; the wait ends at
\* the first 6:::2+ frame after joinDoc, leaveDoc is the next thing sent and
\* the text returned is that frame's; the wait for the leaveDoc ack discards
\* everything but 7: and 6:::3+ and ends at the first 6:::3+ frame.
C24_InterleavedFramesDiscarded ==
    IsPull =>
        /\ conn.pc = "recv2"
              => /\ conn.data = <<>>
                 /\ \A j \in (IndexOf(conn.log, S2) + 1)..Len(conn.log) :
                       Discarded(conn.log, j, P6_2)
        /\ HasSent(S3)
              => LET a == IndexOf(conn.log, S3) - 1
                 IN /\ a > IndexOf(conn.log, S2)
                    /\ RecvWith(conn.log, a, P6_2)
                    /\ conn.data = conn.log[a].body
                    /\ \A j \in (IndexOf(conn.log, S2) + 1)..(a - 1) :
                          Discarded(conn.log, j, P6_2)
        /\ conn.pc = "recv3"
              => \A j \in (IndexOf(conn.log, S3) + 1)..Len(conn.log) :
                    Discarded(conn.log, j, P6_3)
        /\ conn.pc = "returned"
              => LET a == IndexOf(conn.log, S3) - 1
                     b == Len(conn.log) - 1
                 IN /\ b > IndexOf(conn.log, S3)
                    /\ RecvWith(conn.log, b, P6_3)
                    /\ \A j \in (IndexOf(conn.log, S3) + 1)..(b - 1) :
                          Discarded(conn.log, j, P6_3)
                    /\ conn.text = TextOf(conn.log[a].body[2])

\* A pull returned the text of the joinDoc ack although the ack of
\* getConnectedUsers arrived between joinDoc and it.
C24_Witness ==
    /\ IsPull /\ conn.pc = "returned"
    /\ \E j \in DOMAIN conn.log :
          /\ IndexOf(conn.log, S2) < j /\ j < IndexOf(conn.log, S3) - 1
          /\ RecvWith(conn.log, j, <<"6", ":", ":", ":", "1", "+">>)
    /\ conn.text = <<72, 10, 87>>

\* Handle i has seen no flush: it is fresh, or all it did was one write.
Unflushed(i) == handles[i].ops = 0 \/ (handles[i].ops = 1 /\ last.op = "write")

\* C25: closing an open writable handle that was never flushed uploads exactly
\* once, in binary and in text mode; closing a closed handle uploads nothing
\* and raises nothing.
C25_CloseUploadsOnce ==
    [][\A i \in DOMAIN handles :
          (/\ last'.op = "close" /\ last'.h = i /\ handles'[i].ops = handles[i].ops + 1
           /\ handles[i].path # <<>>)
          => /\ (~handles[i].closed /\ writable(handles[i]) /\ Unflushed(i))
                   => Len(Uploads(last'.calls)) = 1
             /\ handles[i].closed
                   => (last'.err = "ok" /\ Uploads(last'.calls) = <<>>)]_vars

\* What close does as coded: a binary handle uploads once, and raises
\* ValueError when it is already closed; a text handle uploads twice, the same
\* bytes, unless the server rejects both, and its second close is a no-op.
C25_CloseAsCoded ==
    [][\A i \in DOMAIN handles :
          (last'.op = "close" /\ last'.h = i /\ handles'[i].ops = handles[i].ops + 1)
          => LET ups == Uploads(last'.calls)
             IN /\ (~handles[i].closed /\ writable(handles[i]))
                      => IF handles[i].binary THEN Len(ups) = 1
                         ELSE /\ Len(ups) = 2
                              /\ ups[1].data = ups[2].data
                /\ handles[i].closed
                      => /\ ups = <<>>
                         /\ last'.err = IF handles[i].binary THEN "ValueError" ELSE "ok"]_vars

\* C26: when an operation that opened a socket has returned or raised, the
\* socket is closed: the tree fetch has closed it when it returns the root
\* folder and when it fails on a malformed join-project payload.
C26_NoSocketLeftOpen ==
    Exited => conn.socket # "open"

\* What the operations do as coded: the document pull closes its socket once
\* on every exit; the tree fetch leaves the socket it opened open on every
\* exit, and never closes it.
C26_SocketAsCoded ==
    /\ (IsPull /\ Exited /\ conn.socket # "none")
          => (conn.socket = "closed" /\ conn.closes = 1)
    /\ (conn.op = "project_get_files" /\ conn.socket # "none")
          => (conn.socket = "open" /\ conn.closes = 0)

====
